---------------------------- MODULE Spec2Model ----------------------------
(***************************************************************************)
(* generate_data.py: the generators of users, items and events, the        *)
(* JSON-lines writer and main().                                           *)
(*                                                                         *)
(* Representation.                                                         *)
(*  - A naive datetime is the number of seconds from 1970-01-01T00:00:00   *)
(*    on the same (naive) clock; a timedelta is a number of seconds.       *)
(*  - A price is held in hundredths (the floats of the program are all     *)
(*    round(x, 2) results): 19.95 is 1995.  A multiplier is held in        *)
(*    tenths: 0.9 is 9, -0.1 is -1.                                        *)
(*  - A path is the sequence of its components: 'data/users.jsonl' is      *)
(*    <<"data", "users.jsonl">>, and '' is << >>.                          *)
(*  - The random module is a pseudo-random stream.  rng is the position    *)
(*    in the stream; the record generated at position r takes its draws    *)
(*    from the digits of r, and each generated record advances rng by one. *)
(*    The run starts at any position 0..MaxSeed.  randint and uniform      *)
(*    return the lowest, a middle and the highest value of their range.    *)
(***************************************************************************)
EXTENDS Integers, Sequences, FiniteSets, TLC

VARIABLES
    pc,      \* where main() (or the called function) stands
    rng,     \* position of the random stream
    tz,      \* UTC offset of the local time zone, in seconds
    users,   \* main's local users / generate_users' list
    items,   \* main's local items / generate_items' list
    events,  \* main's local events / generate_events' list
    dirs,    \* the directories that exist, as paths
    files,   \* the regular files that exist: path -> sequence of lines
    exc,     \* the exception that ended the run, "" when none
    log,     \* history: the calls main has completed, in order
    args,    \* history: the arguments generate_events was called with
    call,    \* the arguments of a direct call of write_jsonl
    config   \* the counts of lines 14-16, as the run reads them

vars ==
    <<pc, rng, tz, users, items, events, dirs, files, exc, log, args, call, config>>

---------------------------------------------------------------------------
(* Bounds of the model: the counts of lines 14-16 are scaled down *)

NUM_USERS == 2
NUM_ITEMS == 2
NUM_EVENTS == 2
MaxSeed == 419

(* Configuration, lines 13-23 *)

START_DATE == 1754006400
END_DATE == 1756598400
SecondsPerDay == 86400

COUNTRIES == <<"US", "CA", "GB", "DE", "FR", "JP", "AU", "BR", "IN", "CN">>
CATEGORIES == <<"electronics", "clothing", "books", "home", "sports", "beauty", "toys", "food">>
EVENT_TYPES == <<"view", "click", "add_to_cart", "purchase", "remove_from_cart">>
GENDERS == <<"M", "F", "Other">>
PRICE_MULTIPLIERS == <<10, 10, 10, 10, -1, 9, 11>>

UtcOffsets == {-18000, 0, 19800}

---------------------------------------------------------------------------
(* Text: str(), zero padding, float repr, isoformat *)

Digit(d) == <<"0", "1", "2", "3", "4", "5", "6", "7", "8", "9">>[d + 1]

RECURSIVE Str(_)
Str(n) ==
    IF n < 0 THEN "-" \o Str(-n)
    ELSE IF n < 10 THEN Digit(n)
    ELSE Str(n \div 10) \o Digit(n % 10)

RECURSIVE PadLeft(_, _)
PadLeft(s, width) == IF Len(s) >= width THEN s ELSE PadLeft("0" \o s, width)

\* format(n, '0<width>d'): at least width digits, never truncated
ZeroPad(n, width) ==
    IF n < 0 THEN "-" \o PadLeft(Str(-n), width - 1) ELSE PadLeft(Str(n), width)

\* repr of the float c / 100, c in hundredths: 500 -> 5.0, 1995 -> 19.95, -50 -> -0.5
FloatRepr(c) ==
    LET a == IF c < 0 THEN -c ELSE c
        frac == a % 100
    IN  (IF c < 0 THEN "-" ELSE "") \o Str(a \div 100) \o "." \o
        (IF frac % 10 = 0 THEN Digit(frac \div 10) ELSE ZeroPad(frac, 2))

\* the civil date of a day number (days from 1970-01-01)
CivilFromDays(z) ==
    LET zz == z + 719468
        era == zz \div 146097
        doe == zz - era * 146097
        yoe == (doe - doe \div 1460 + doe \div 36524 - doe \div 146096) \div 365
        doy == doe - (365 * yoe + yoe \div 4 - yoe \div 100)
        mp == (5 * doy + 2) \div 153
        d == doy - (153 * mp + 2) \div 5 + 1
        m == IF mp < 10 THEN mp + 3 ELSE mp - 9
        y == yoe + era * 400 + (IF m <= 2 THEN 1 ELSE 0)
    IN  [year |-> y, month |-> m, day |-> d]

\* datetime.isoformat() of a naive datetime with no microseconds
isoformat(dt) ==
    LET date == CivilFromDays(dt \div SecondsPerDay)
        sod == dt % SecondsPerDay
    IN  ZeroPad(date.year, 4) \o "-" \o ZeroPad(date.month, 2) \o "-" \o
        ZeroPad(date.day, 2) \o "T" \o ZeroPad(sod \div 3600, 2) \o ":" \o
        ZeroPad((sod % 3600) \div 60, 2) \o ":" \o ZeroPad(sod % 60, 2)

\* datetime.timestamp() of a naive datetime: it is read as local time
timestamp(dt) == dt - tz

---------------------------------------------------------------------------
(* The random module *)

\* random.choice(seq) at stream digit r
choice(seq, r) == seq[(r % Len(seq)) + 1]

\* the values of lo..hi the model draws
Sample(lo, hi) == <<lo, (lo + hi) \div 2, hi>>

\* random.randint(lo, hi) at stream digit r
randint(lo, hi, r) == choice(Sample(lo, hi), r)

\* round(random.uniform(lo, hi), 2) in hundredths, lo and hi in units
uniform_round2(lo, hi, r) == choice(<<lo * 100, 1995, hi * 100>>, r)

\* round(c * m, 2) for c in hundredths and m in tenths.  The product is a
\* binary float: when it is not half way between two hundredths it rounds
\* to the nearest one; when the decimal product is half way the float lies
\* on either side of it
round2(c, m) ==
    LET n == c * m
        lower == n \div 10
        rest == n % 10
    IN  IF rest < 5 THEN {lower}
        ELSE IF rest > 5 THEN {lower + 1}
        ELSE {lower, lower + 1}

---------------------------------------------------------------------------
(* generate_users, lines 25-37 *)

\* the bug range(NUM_USERS)
users_range_from_zero == [k \in 1..config.num_users |-> k - 1]

\* range(1, NUM_USERS + 1), line 28
users_range == [k \in 1..config.num_users |-> k]

\* the dict built at lines 29-35, from stream position r
user_record(i, r) ==
    LET r1 == r \div Len(COUNTRIES)
        r2 == r1 \div Len(Sample(18, 70))
        r3 == r2 \div Len(GENDERS)
    IN  [user_id |-> "user_" \o ZeroPad(i, 6),
         country |-> choice(COUNTRIES, r),
         age |-> randint(18, 70, r1),
         gender |-> choice(GENDERS, r2),
         registration_date |->
             isoformat(START_DATE - randint(0, 365, r3) * SecondsPerDay)]

(* generate_items, lines 39-51 *)

\* the bug range(NUM_ITEMS)
items_range_from_zero == [k \in 1..config.num_items |-> k - 1]

\* range(1, NUM_ITEMS + 1), line 42
items_range == [k \in 1..config.num_items |-> k]

\* the dict built at lines 43-49, from stream position r
item_record(i, r) ==
    LET r1 == r \div 3
        r2 == r1 \div Len(CATEGORIES)
    IN  [item_id |-> "item_" \o ZeroPad(i, 6),
         category |-> choice(CATEGORIES, r1),
         price |-> uniform_round2(5, 500, r),
         brand |-> "Brand_" \o Str(randint(1, 50, r2)),
         name |-> "Product " \o Str(i)]

(* generate_events, lines 53-93 *)

\* range(NUM_EVENTS), line 59
events_range == [k \in 1..config.num_events |-> k - 1]

\* the bug of numbering the ids again, from 0, instead of reading them
user_ids_renumbered(us) == [k \in 1..Len(us) |-> "user_" \o ZeroPad(k - 1, 6)]

\* lines 56-57
user_ids(us) == [k \in 1..Len(us) |-> us[k].user_id]
item_ids(its) == [k \in 1..Len(its) |-> its[k].item_id]

\* the bug of taking the first item whatever its id
find_item_first(its, item_id) == its[1]

\* next(item for item in items if item['item_id'] == item_id), line 70
find_item(its, item_id) ==
    LET hits == {k \in 1..Len(its) : its[k].item_id = item_id}
    IN  its[CHOOSE k \in hits : \A j \in hits : k <= j]

\* the bug of drawing through the end of the day of END_DATE
random_seconds_through_end_day(r) ==
    randint(0, END_DATE + SecondsPerDay - START_DATE, r)

\* random.randint(0, int(time_delta.total_seconds())), lines 61-62
random_seconds(r) == randint(0, END_DATE - START_DATE, r)

\* the bugs of randint(0, 300) and of a quantity on remove_from_cart too
event_props_loose(event_type, item, r) ==
    IF event_type = "purchase"
    THEN {[price |-> p] : p \in round2(item.price, choice(PRICE_MULTIPLIERS, r))}
    ELSE IF event_type = "view"
    THEN {[duration |-> randint(0, 300, r)]}
    ELSE IF event_type \in {"add_to_cart", "remove_from_cart"}
    THEN {[quantity |-> randint(1, 5, r)]}
    ELSE {<< >>}

\* event['props'] after lines 78-89: the possible mappings
event_props(event_type, item, r) ==
    IF event_type = "purchase"
    THEN {[price |-> p] : p \in round2(item.price, choice(PRICE_MULTIPLIERS, r))}
    ELSE IF event_type = "view"
    THEN {[duration |-> randint(1, 300, r)]}
    ELSE IF event_type = "add_to_cart"
    THEN {[quantity |-> randint(1, 5, r)]}
    ELSE {<< >>}

\* one pass of the loop body, lines 60-91, for non-empty us and its: the
\* events it can append
event_records(i, us, its, r) ==
    LET event_time == START_DATE + random_seconds(r)
        r1 == r \div Len(Sample(0, END_DATE - START_DATE))
        user_id == choice(user_ids(us), r1)
        r2 == r1 \div Len(us)
        item_id == choice(item_ids(its), r2)
        r3 == r2 \div Len(its)
        event_type == choice(EVENT_TYPES, r3)
        r4 == r3 \div Len(EVENT_TYPES)
        item == find_item(its, item_id)
    IN  {[event_id |-> "event_" \o ZeroPad(i, 8),
          user_id |-> user_id,
          item_id |-> item_id,
          event_type |-> event_type,
          ts |-> timestamp(event_time),
          props |-> props] : props \in event_props(event_type, item, r4)}

---------------------------------------------------------------------------
(* json.dumps(record), line 100, with the default separators *)

Quoted(s) == "\"" \o s \o "\""

dumps_props(props) ==
    IF "price" \in DOMAIN props
    THEN "{\"price\": " \o FloatRepr(props.price) \o "}"
    ELSE IF "duration" \in DOMAIN props
    THEN "{\"duration\": " \o Str(props.duration) \o "}"
    ELSE IF "quantity" \in DOMAIN props
    THEN "{\"quantity\": " \o Str(props.quantity) \o "}"
    ELSE "{}"

dumps(record) ==
    IF "event_id" \in DOMAIN record
    THEN "{\"event_id\": " \o Quoted(record.event_id) \o
         ", \"user_id\": " \o Quoted(record.user_id) \o
         ", \"item_id\": " \o Quoted(record.item_id) \o
         ", \"event_type\": " \o Quoted(record.event_type) \o
         ", \"ts\": " \o Str(record.ts) \o
         ", \"props\": " \o dumps_props(record.props) \o "}"
    ELSE IF "user_id" \in DOMAIN record
    THEN "{\"user_id\": " \o Quoted(record.user_id) \o
         ", \"country\": " \o Quoted(record.country) \o
         ", \"age\": " \o Str(record.age) \o
         ", \"gender\": " \o Quoted(record.gender) \o
         ", \"registration_date\": " \o Quoted(record.registration_date) \o "}"
    ELSE "{\"item_id\": " \o Quoted(record.item_id) \o
         ", \"category\": " \o Quoted(record.category) \o
         ", \"price\": " \o FloatRepr(record.price) \o
         ", \"brand\": " \o Quoted(record.brand) \o
         ", \"name\": " \o Quoted(record.name) \o "}"

\* the lines the loop of lines 99-100 writes
jsonl_lines(data) == [k \in 1..Len(data) |-> dumps(data[k]) \o "\n"]

---------------------------------------------------------------------------
(* The file system: os.path.dirname, os.makedirs, open, write *)

\* os.path.dirname(filename): '' for a bare file name
dirname(filename) == SubSeq(filename, 1, Len(filename) - 1)

\* os.path.exists(path); the working directory '' always exists as a parent
exists(path, ds, fs) == path \in ds \/ path \in DOMAIN fs

IoErrors == {"PermissionError", "OSError"}

\* os.mkdir(name) followed by the handler of os.makedirs(exist_ok=True):
\* an OSError is swallowed when name is a directory
mkdir_exist_ok(name, ds, fs) ==
    IF name = << >> THEN {[dirs |-> ds, exc |-> "FileNotFoundError"]}
    ELSE IF name \in ds THEN {[dirs |-> ds, exc |-> ""]}
    ELSE IF name \in DOMAIN fs THEN {[dirs |-> ds, exc |-> "FileExistsError"]}
    ELSE IF dirname(name) \in DOMAIN fs
    THEN {[dirs |-> ds, exc |-> "NotADirectoryError"]}
    ELSE IF dirname(name) # << >> /\ dirname(name) \notin ds
    THEN {[dirs |-> ds, exc |-> "FileNotFoundError"]}
    ELSE {[dirs |-> ds \cup {name}, exc |-> ""],
          [dirs |-> ds, exc |-> "PermissionError"]}

\* os.makedirs(name, exist_ok=True): the missing ancestors first, then name
RECURSIVE makedirs(_, _, _)
makedirs(name, ds, fs) ==
    LET head == dirname(name)
        heads == IF head # << >> /\ ~exists(head, ds, fs)
                 THEN makedirs(head, ds, fs)
                 ELSE {[dirs |-> ds, exc |-> ""]}
    IN  UNION {IF h.exc # "" THEN {h} ELSE mkdir_exist_ok(name, h.dirs, fs) :
               h \in heads}

\* the bug of open(filename, 'a'): an existing file keeps its lines
open_a(filename, ds, fs) ==
    IF filename \in ds THEN {[files |-> fs, exc |-> "IsADirectoryError"]}
    ELSE IF dirname(filename) \in DOMAIN fs
    THEN {[files |-> fs, exc |-> "NotADirectoryError"]}
    ELSE IF dirname(filename) # << >> /\ dirname(filename) \notin ds
    THEN {[files |-> fs, exc |-> "FileNotFoundError"]}
    ELSE {[files |-> fs @@ (filename :> << >>), exc |-> ""],
          [files |-> fs, exc |-> "PermissionError"]}

\* open(filename, 'w'): the file is created or truncated
open_w(filename, ds, fs) ==
    IF filename \in ds THEN {[files |-> fs, exc |-> "IsADirectoryError"]}
    ELSE IF dirname(filename) \in DOMAIN fs
    THEN {[files |-> fs, exc |-> "NotADirectoryError"]}
    ELSE IF dirname(filename) # << >> /\ dirname(filename) \notin ds
    THEN {[files |-> fs, exc |-> "FileNotFoundError"]}
    ELSE {[files |-> (filename :> << >>) @@ fs, exc |-> ""],
          [files |-> fs, exc |-> "PermissionError"]}

\* the loop of f.write and the close of the with block, lines 98-100, on
\* the file as open left it: all the lines are added, or an I/O error
\* leaves only some of the leading ones added
write_lines(filename, lines, fs) ==
    {[files |-> (filename :> (fs[filename] \o lines)) @@ fs, exc |-> ""]} \cup
    {[files |-> (filename :> (fs[filename] \o SubSeq(lines, 1, j))) @@ fs,
      exc |-> "OSError"] : j \in 0..(Len(lines) - 1)}

\* write_jsonl(data, filename), lines 95-100: the file system and the
\* exception it can end with
write_jsonl(data, filename, ds, fs) ==
    UNION {
        IF m.exc # "" THEN {[dirs |-> m.dirs, files |-> fs, exc |-> m.exc]}
        ELSE UNION {
            IF o.exc # "" THEN {[dirs |-> m.dirs, files |-> o.files, exc |-> o.exc]}
            ELSE {[dirs |-> m.dirs, files |-> w.files, exc |-> w.exc] :
                     w \in write_lines(filename, jsonl_lines(data), o.files)} :
            o \in open_w(filename, m.dirs, fs)} :
        m \in makedirs(dirname(filename), ds, fs)}

---------------------------------------------------------------------------
(* main, lines 102-128 *)

DATA_DIR == <<"data">>
USERS_FILE == <<"data", "users.jsonl">>
ITEMS_FILE == <<"data", "items.jsonl">>
EVENTS_FILE == <<"data", "events.jsonl">>

\* the arguments of generate_events(users, items), line 121
generate_events_args == [users |-> users, items |-> items]

\* an entry of log: a call of main that returned
Generated(name) == [call |-> name, filename |-> << >>]
Written(filename) == [call |-> "write_jsonl", filename |-> filename]

NoArgs == [users |-> << >>, items |-> << >>]
NoCall == [data |-> << >>, filename |-> << >>]
NoFiles == << >>

\* what a previous run left in a file
StaleLines == <<"{\"user_id\": \"user_000009\"}\n", "{\"stale\": 1}\n",
                "{\"stale\": 2}\n", "{\"stale\": 3}\n">>

\* the counts as lines 14-16 set them
Configured ==
    [num_users |-> NUM_USERS, num_items |-> NUM_ITEMS, num_events |-> NUM_EVENTS]

\* the file systems a run can start in
InitialFileSystems ==
    {[dirs |-> {}, files |-> NoFiles],
     [dirs |-> {DATA_DIR}, files |-> NoFiles],
     [dirs |-> {DATA_DIR},
      files |-> (USERS_FILE :> StaleLines) @@ (ITEMS_FILE :> StaleLines) @@
                (EVENTS_FILE :> StaleLines)],
     [dirs |-> {DATA_DIR, ITEMS_FILE}, files |-> (USERS_FILE :> StaleLines)],
     [dirs |-> {}, files |-> (DATA_DIR :> << >>)]}

Init ==
    /\ pc = "makedirs"
    /\ rng \in 0..MaxSeed
    /\ tz \in UtcOffsets
    /\ users = << >>
    /\ items = << >>
    /\ events = << >>
    /\ \E f \in InitialFileSystems : dirs = f.dirs /\ files = f.files
    /\ exc = ""
    /\ log = << >>
    /\ args = NoArgs
    /\ call = NoCall
    /\ config = Configured

\* os.makedirs('data', exist_ok=True), line 107
MakeDataDir ==
    /\ pc = "makedirs"
    /\ \E m \in makedirs(DATA_DIR, dirs, files) :
        /\ dirs' = m.dirs
        /\ exc' = m.exc
        /\ pc' = IF m.exc = "" THEN "generate_users" ELSE "failed"
        /\ log' = log
    /\ UNCHANGED <<rng, tz, users, items, events, files, args, call, config>>

\* users = generate_users(), line 111: one pass of the loop of line 28, and
\* the return when the range is exhausted
GenerateUsers ==
    /\ pc = "generate_users"
    /\ LET more == Len(users) < Len(users_range)
           us == IF more
                 THEN Append(users, user_record(users_range[Len(users) + 1], rng))
                 ELSE users
           done == Len(us) >= Len(users_range)
       IN  /\ users' = us
           /\ rng' = IF more THEN rng + 1 ELSE rng
           /\ pc' = IF done THEN "write_users" ELSE pc
           /\ log' = IF done THEN Append(log, Generated("generate_users")) ELSE log
    /\ UNCHANGED <<tz, items, events, dirs, files, exc, args, call, config>>

\* the bug of catching the exception of write_jsonl and going on
MainWrite_swallow(at, data, filename, next) ==
    /\ pc = at
    /\ \E w \in write_jsonl(data, filename, dirs, files) :
        /\ dirs' = w.dirs
        /\ files' = w.files
        /\ exc' = w.exc
        /\ pc' = next
        /\ log' = IF w.exc = "" THEN Append(log, Written(filename)) ELSE log
    /\ UNCHANGED <<rng, tz, users, items, events, args, call, config>>

\* a write_jsonl(data, filename) of main: lines 112, 117, 122
MainWrite(at, data, filename, next) ==
    /\ pc = at
    /\ \E w \in write_jsonl(data, filename, dirs, files) :
        /\ dirs' = w.dirs
        /\ files' = w.files
        /\ exc' = w.exc
        /\ pc' = IF w.exc = "" THEN next ELSE "failed"
        /\ log' = IF w.exc = "" THEN Append(log, Written(filename)) ELSE log
    /\ UNCHANGED <<rng, tz, users, items, events, args, call, config>>

\* the bug of writing the items, not yet generated, in place of the users
WriteUsers_items_first ==
    MainWrite("write_users", items, ITEMS_FILE, "generate_items")

\* write_jsonl(users, 'data/users.jsonl'), line 112
WriteUsers == MainWrite("write_users", users, USERS_FILE, "generate_items")

\* items = generate_items(), line 116
GenerateItems ==
    /\ pc = "generate_items"
    /\ LET more == Len(items) < Len(items_range)
           its == IF more
                  THEN Append(items, item_record(items_range[Len(items) + 1], rng))
                  ELSE items
           done == Len(its) >= Len(items_range)
       IN  /\ items' = its
           /\ rng' = IF more THEN rng + 1 ELSE rng
           /\ pc' = IF done THEN "write_items" ELSE pc
           /\ log' = IF done THEN Append(log, Generated("generate_items")) ELSE log
    /\ UNCHANGED <<tz, users, events, dirs, files, exc, args, call, config>>

\* write_jsonl(items, 'data/items.jsonl'), line 117
WriteItems == MainWrite("write_items", items, ITEMS_FILE, "generate_events")

\* events = generate_events(users, items), line 121: the call binds the
\* parameters; then one pass of the loop of line 59, which raises IndexError
\* at random.choice of an empty list, and the return
GenerateEvents ==
    /\ pc = "generate_events"
    /\ LET p == IF events = << >> THEN generate_events_args ELSE args
           more == Len(events) < Len(events_range)
           raises == more /\ (p.users = << >> \/ p.items = << >>)
       IN  /\ args' = p
           /\ IF raises
              THEN /\ events' = events
                   /\ rng' = rng
                   /\ exc' = "IndexError"
                   /\ pc' = "failed"
                   /\ log' = log
              ELSE \E e \in (IF more
                             THEN event_records(events_range[Len(events) + 1],
                                                p.users, p.items, rng)
                             ELSE {<< >>}) :
                   LET es == IF more THEN Append(events, e) ELSE events
                       done == Len(es) >= Len(events_range)
                   IN  /\ events' = es
                       /\ rng' = IF more THEN rng + 1 ELSE rng
                       /\ exc' = exc
                       /\ pc' = IF done THEN "write_events" ELSE pc
                       /\ log' = IF done THEN Append(log, Generated("generate_events"))
                                  ELSE log
    /\ UNCHANGED <<tz, users, items, dirs, files, call, config>>

\* write_jsonl(events, 'data/events.jsonl'), line 122
WriteEvents == MainWrite("write_events", events, EVENTS_FILE, "done")

Next ==
    \/ MakeDataDir
    \/ GenerateUsers
    \/ WriteUsers
    \/ GenerateItems
    \/ WriteItems
    \/ GenerateEvents
    \/ WriteEvents

Spec == Init /\ [][Next]_vars

---------------------------------------------------------------------------
(* main under substituted counts, from none up to the configured ones: the
   runs in which a generator returns an empty list *)

Configs ==
    [num_users : 0..NUM_USERS, num_items : 0..NUM_ITEMS,
     num_events : 0..NUM_EVENTS]

InitAnyConfig ==
    /\ pc = "makedirs"
    /\ rng \in 0..(MaxSeed \div 10)
    /\ tz = 0
    /\ users = << >>
    /\ items = << >>
    /\ events = << >>
    /\ \E f \in InitialFileSystems : dirs = f.dirs /\ files = f.files
    /\ exc = ""
    /\ log = << >>
    /\ args = NoArgs
    /\ call = NoCall
    /\ config \in Configs

SpecAnyConfig == InitAnyConfig /\ [][Next]_vars

---------------------------------------------------------------------------
(* write_jsonl called on its own, on any list and any file name *)

BARE_FILE == <<"users.jsonl">>
NESTED_FILE == <<"out", "run1", "users.jsonl">>

FileNames == {BARE_FILE, USERS_FILE, NESTED_FILE}

DataLists ==
    {<< >>,
     <<user_record(1, 0)>>,
     <<user_record(1, 7), user_record(2, 8)>>,
     <<item_record(1, 1), item_record(2, 2)>>}

CallFileSystems ==
    InitialFileSystems \cup
    {[dirs |-> {<<"out">>}, files |-> (BARE_FILE :> StaleLines)],
     [dirs |-> {<<"out">>, <<"out", "run1">>},
      files |-> (NESTED_FILE :> StaleLines)]}

InitWrite ==
    /\ pc = "call"
    /\ call \in [data : DataLists, filename : FileNames]
    /\ \E f \in CallFileSystems : dirs = f.dirs /\ files = f.files
    /\ rng = 0
    /\ tz = 0
    /\ users = << >>
    /\ items = << >>
    /\ events = << >>
    /\ exc = ""
    /\ log = << >>
    /\ args = NoArgs
    /\ config = Configured

CallWriteJsonl ==
    /\ pc = "call"
    /\ \E w \in write_jsonl(call.data, call.filename, dirs, files) :
        /\ dirs' = w.dirs
        /\ files' = w.files
        /\ exc' = w.exc
        /\ pc' = IF w.exc = "" THEN "returned" ELSE "raised"
    /\ UNCHANGED <<rng, tz, users, items, events, log, args, call, config>>

NextWrite == CallWriteJsonl

SpecWrite == InitWrite /\ [][NextWrite]_vars

---------------------------------------------------------------------------
(* Vocabulary of the properties *)

Range(seq) == {seq[k] : k \in 1..Len(seq)}

\* n written in exactly width decimal digits
RECURSIVE FixedDigits(_, _)
FixedDigits(n, width) ==
    IF width = 0 THEN "" ELSE FixedDigits(n \div 10, width - 1) \o Digit(n % 10)

\* the sequence number an id carries after its prefix, -1 when it carries none
SeqNo(id, prefix, width) ==
    LET hits == {n \in 0..(NUM_USERS + NUM_ITEMS + NUM_EVENTS) :
                     id = prefix \o FixedDigits(n, width)}
    IN  IF hits = {} THEN -1 ELSE CHOOSE n \in hits : TRUE

Distinct(ids) == \A j, k \in 1..Len(ids) : ids[j] = ids[k] => j = k

UserIdsOf(us) == [k \in 1..Len(us) |-> us[k].user_id]
ItemIdsOf(its) == [k \in 1..Len(its) |-> its[k].item_id]
EventIdsOf(es) == [k \in 1..Len(es) |-> es[k].event_id]

Returned(entry) == entry \in Range(log)

\* the file holds the encoding of data, line by line, and nothing stale
FileHolds(filename, data) ==
    /\ filename \in DOMAIN files
    /\ Len(files[filename]) = Len(data)
    /\ \A k \in 1..Len(data) : files[filename][k] = dumps(data[k]) \o "\n"
    /\ \A k \in 1..Len(files[filename]) : files[filename][k] \notin Range(StaleLines)

\* the file is as the run found it
Untouched(filename) ==
    filename \in DOMAIN files => files[filename] = StaleLines

---------------------------------------------------------------------------
(* The properties *)

\* C1: every generated event carries the user_id of a record of users and
\* the item_id of a record of items.
C1_ReferentialIntegrity ==
    \A k \in 1..Len(events) :
        /\ \E u \in 1..Len(users) : users[u].user_id = events[k].user_id
        /\ \E i \in 1..Len(items) : items[i].item_id = events[k].item_id

\* C1 happens: a finished run whose events name the last user and the last item
C1_Witness ==
    /\ pc = "done"
    /\ Len(events) = config.num_events
    /\ \E k \in 1..Len(events) : events[k].user_id = users[config.num_users].user_id
    /\ \E k \in 1..Len(events) : events[k].item_id = items[config.num_items].item_id

\* C2: the list generate_users returns has N records, the k-th with
\* user_id "user_" followed by k in six digits, so each of user_1..user_N
\* once and in increasing order; while it is built it is a prefix of that.
C2_UserIdsExact ==
    /\ \A k \in 1..Len(users) : users[k].user_id = "user_" \o FixedDigits(k, 6)
    /\ Len(users) <= config.num_users
    /\ Returned(Generated("generate_users")) =>
        /\ Len(users) = config.num_users
        /\ Range(UserIdsOf(users)) = {"user_" \o FixedDigits(n, 6) : n \in 1..config.num_users}
        /\ Cardinality(Range(UserIdsOf(users))) = config.num_users

\* C2 happens: generate_users has returned at least two users
C2_Witness ==
    /\ Returned(Generated("generate_users"))
    /\ Len(users) >= 2
    /\ users[1].user_id = "user_000001"
    /\ users[2].user_id = "user_000002"

\* C3 as stated: for users, items and events alike the ids are pairwise
\* distinct and the k-th generated record carries sequence number k.
C3_AllIdsFromOne ==
    /\ Distinct(UserIdsOf(users)) /\ Distinct(ItemIdsOf(items))
    /\ Distinct(EventIdsOf(events))
    /\ \A k \in 1..Len(users) : SeqNo(users[k].user_id, "user_", 6) = k
    /\ \A k \in 1..Len(items) : SeqNo(items[k].item_id, "item_", 6) = k
    /\ \A k \in 1..Len(events) : SeqNo(events[k].event_id, "event_", 8) = k

\* C3 amended: the ids of a record type are pairwise distinct; the k-th user
\* and the k-th item carry sequence number k (1..N), and the k-th event
\* carries k - 1 (0..N-1).
C3_IdsUniqueMonotone ==
    /\ Distinct(UserIdsOf(users)) /\ Distinct(ItemIdsOf(items))
    /\ Distinct(EventIdsOf(events))
    /\ \A k \in 1..Len(users) : SeqNo(users[k].user_id, "user_", 6) = k
    /\ \A k \in 1..Len(items) : SeqNo(items[k].item_id, "item_", 6) = k
    /\ \A k \in 1..Len(events) : SeqNo(events[k].event_id, "event_", 8) = k - 1
    /\ Returned(Generated("generate_items")) => Len(items) = config.num_items
    /\ Returned(Generated("generate_events")) => Len(events) = config.num_events

\* C3 happens: all three lists are complete, with at least two records each
C3_Witness ==
    /\ pc = "done"
    /\ Len(users) >= 2 /\ Len(items) >= 2 /\ Len(events) >= 2
    /\ items[Len(items)].item_id = "item_" \o FixedDigits(config.num_items, 6)
    /\ events[1].event_id = "event_00000000"
    /\ events[Len(events)].event_id = "event_" \o FixedDigits(config.num_events - 1, 8)

\* C4: the ts of every event is the epoch of START_DATE plus an offset of
\* 0 to END_DATE - START_DATE seconds, so it lies in
\* [epoch(START_DATE), epoch(END_DATE)].
C4_TsInWindow ==
    \A k \in 1..Len(events) :
        /\ events[k].ts - timestamp(START_DATE) \in 0..(END_DATE - START_DATE)
        /\ timestamp(START_DATE) <= events[k].ts
        /\ events[k].ts <= timestamp(END_DATE)

\* C4 happens: one run has an event at each end point of the window
C4_Witness ==
    /\ \E k \in 1..Len(events) : events[k].ts = timestamp(START_DATE)
    /\ \E k \in 1..Len(events) : events[k].ts = timestamp(END_DATE)

\* C5: props is decided by event_type: a view has exactly duration, in
\* 1..300; an add_to_cart exactly quantity, in 1..5; a purchase exactly
\* price; a click and a remove_from_cart nothing.
C5_PropsByType ==
    \A k \in 1..Len(events) :
        LET e == events[k]
        IN  /\ e.event_type \in Range(EVENT_TYPES)
            /\ e.event_type = "view" =>
                DOMAIN e.props = {"duration"} /\ e.props.duration \in 1..300
            /\ e.event_type = "add_to_cart" =>
                DOMAIN e.props = {"quantity"} /\ e.props.quantity \in 1..5
            /\ e.event_type = "purchase" =>
                DOMAIN e.props = {"price"} /\ e.props.price \in Int
            /\ e.event_type \in {"click", "remove_from_cart"} =>
                DOMAIN e.props = {}

\* C5 happens: a view of the longest duration next to a click
C5_Witness ==
    /\ \E k \in 1..Len(events) :
        events[k].event_type = "view" /\ events[k].props.duration = 300
    /\ \E k \in 1..Len(events) :
        events[k].event_type = "click" /\ DOMAIN events[k].props = {}

\* C6: the price of a purchase is the price of the item the event names
\* times 1.0, -0.1, 0.9 or 1.1, rounded to hundredths: it is within half a
\* hundredth of that product.
C6_PurchasePrice ==
    \A k \in 1..Len(events) :
        events[k].event_type = "purchase" =>
            \E j \in 1..Len(items) :
                /\ items[j].item_id = events[k].item_id
                /\ \E m \in {10, -1, 9, 11} :
                    LET d == 10 * events[k].props.price - items[j].price * m
                    IN  -5 <= d /\ d <= 5

\* C6 happens: a purchase of a later item, priced unlike the first, at the
\* multiplier -0.1: a negative price
C6_Witness ==
    \E k \in 1..Len(events) : \E j \in 2..Len(items) :
        /\ events[k].event_type = "purchase"
        /\ events[k].item_id = items[j].item_id
        /\ items[j].price # items[1].price
        /\ events[k].props.price < 0
        /\ 10 * events[k].props.price - items[j].price * (-1) \in -5..5

\* the order of the calls of main
StageOrder ==
    <<Generated("generate_users"), Written(USERS_FILE),
      Generated("generate_items"), Written(ITEMS_FILE),
      Generated("generate_events"), Written(EVENTS_FILE)>>

\* C7: the calls of main return in the fixed order; generate_events is
\* entered only after users and items were generated and written, with
\* exactly those lists; a finished run has written each file once.
C7_StageOrder ==
    /\ Len(log) <= Len(StageOrder)
    /\ log = SubSeq(StageOrder, 1, Len(log))
    /\ pc = "done" => log = StageOrder
    /\ (args # NoArgs \/ events # << >>) =>
        /\ Len(log) >= 4
        /\ args = [users |-> users, items |-> items]
        /\ Len(users) = config.num_users /\ Len(items) = config.num_items
        /\ FileHolds(USERS_FILE, args.users)
        /\ FileHolds(ITEMS_FILE, args.items)

\* C7 happens: a finished run
C7_Witness ==
    /\ pc = "done"
    /\ log = StageOrder
    /\ args.users = users /\ args.items = items
    /\ Len(events) = config.num_events

\* C8: once write_jsonl(data, path) has returned, the file holds len(data)
\* lines, the k-th the encoding of the k-th record and a newline, and
\* nothing of what it held before; so the three files of a run hold
\* N, M and K lines, the configured counts.
C8_FileContent ==
    /\ Returned(Written(USERS_FILE)) =>
        FileHolds(USERS_FILE, users) /\ Len(files[USERS_FILE]) = config.num_users
    /\ Returned(Written(ITEMS_FILE)) =>
        FileHolds(ITEMS_FILE, items) /\ Len(files[ITEMS_FILE]) = config.num_items
    /\ Returned(Written(EVENTS_FILE)) =>
        FileHolds(EVENTS_FILE, events) /\ Len(files[EVENTS_FILE]) = config.num_events

\* C8 happens: the users file is rewritten in a directory that holds the
\* files of a previous run
C8_Witness ==
    /\ Returned(Written(USERS_FILE))
    /\ FileHolds(USERS_FILE, users)
    /\ Len(users) >= 2
    /\ ITEMS_FILE \in DOMAIN files
    /\ files[ITEMS_FILE] = StaleLines

\* the state of a run that an exception ended
FailedRun ==
    /\ exc # ""
    /\ Len(log) < Len(StageOrder)
    /\ log = SubSeq(StageOrder, 1, Len(log))
    /\ Returned(Written(USERS_FILE)) => FileHolds(USERS_FILE, users)
    /\ Returned(Written(ITEMS_FILE)) => FileHolds(ITEMS_FILE, items)
    /\ Len(log) < 2 => items = << >>
    /\ Len(log) < 3 => Untouched(ITEMS_FILE)
    /\ Len(log) < 4 => events = << >>
    /\ Len(log) < 5 => Untouched(EVENTS_FILE)

\* C9: an exception in a stage of main is not caught: the run is in the
\* failed state, where nothing changes any more, no later stage has run,
\* and each file a stage wrote completely holds what that stage wrote.
C9_FailureStops ==
    /\ [](exc # "" => pc = "failed")
    /\ [](pc = "failed" => FailedRun)
    /\ [][pc = "failed" => UNCHANGED vars]_vars

\* C9 happens: generate_events raises on an empty list of items after both
\* files were written, and the events file of the previous run is still there
C9_Witness ==
    /\ pc = "failed"
    /\ exc = "IndexError"
    /\ Len(users) >= 2 /\ items = << >>
    /\ Returned(Written(USERS_FILE)) /\ FileHolds(USERS_FILE, users)
    /\ Returned(Written(ITEMS_FILE)) /\ FileHolds(ITEMS_FILE, items)
    /\ EVENTS_FILE \in DOMAIN files
    /\ files[EVENTS_FILE] = StaleLines

\* no parent of the file name is a regular file, the name is no directory
WritableLocation(filename) ==
    /\ filename \notin dirs
    /\ \A k \in 1..(Len(filename) - 1) : SubSeq(filename, 1, k) \notin DOMAIN files

\* C10: for every file name in a writable location, a bare one included,
\* write_jsonl makes the parent directories exist and writes the file,
\* unless an I/O error (permissions) stops it.
C10_AnyFileName ==
    (pc \in {"returned", "raised"} /\ WritableLocation(call.filename)
        /\ exc \notin IoErrors) =>
        /\ exc = ""
        /\ \A k \in 1..(Len(call.filename) - 1) :
               SubSeq(call.filename, 1, k) \in dirs
        /\ call.filename \in DOMAIN files
        /\ files[call.filename] = jsonl_lines(call.data)

=============================================================================
